---------------------------- MODULE Spec2Model ----------------------------
(***************************************************************************)
(* Book catalog (Flask + SQLAlchemy on SQLite): the request handlers of    *)
(* app.py over the Author and Book tables of data_models.py.               *)
(*                                                                         *)
(* A form field is a sequence of characters; an absent field and an empty  *)
(* one are both <<>> (the handlers read `field or ""`).  A character is a  *)
(* string: itself when it is ASCII, its Unicode name otherwise.            *)
(***************************************************************************)
EXTENDS Integers, Sequences, FiniteSets, TLC

VARIABLES
    authors,       \* rows of table "author"
    books,         \* rows of table "book"
    foreign_keys,  \* whether the SQLite connection enforces foreign keys
    last,          \* the last completed request and its response
    procs,         \* per worker: the request in flight and its locals
    payload,       \* validate_book_payload: the arguments under test
    result         \* validate_book_payload: what the call produced

vars == <<authors, books, foreign_keys, last, procs, payload, result>>

---------------------------------------------------------------------------
(* Bounds of the model *)

\* largest primary key the model lets table "author" reach
MaxAuthorId == 2
\* largest primary key the model lets table "book" reach
MaxBookId == 2
\* the calendar year datetime.now().year returns while the model runs
CurrentYear == 2026

---------------------------------------------------------------------------
(* Strings *)

DecimalDigits == {"0", "1", "2", "3", "4", "5", "6", "7", "8", "9"}
\* characters for which str.isdigit() is true although int() rejects them
\* (Unicode Numeric_Type=Digit that is not Decimal, e.g. SUPERSCRIPT TWO)
NonDecimalDigits == {"SUPERSCRIPT TWO"}

\* str.strip(): whitespace removed at both ends
RECURSIVE strip_left(_)
strip_left(s) ==
    IF s # <<>> /\ Head(s) = " " THEN strip_left(Tail(s)) ELSE s

RECURSIVE strip_right(_)
strip_right(s) ==
    IF s # <<>> /\ s[Len(s)] = " "
    THEN strip_right(SubSeq(s, 1, Len(s) - 1))
    ELSE s

strip(s) == strip_right(strip_left(s))

\* Python's str.lower(): Unicode-aware
py_lower_char(c) ==
    CASE c = "D" -> "d"
      [] c = "E WITH ACUTE" -> "e with acute"
      [] OTHER -> c

py_lower(s) == [i \in 1..Len(s) |-> py_lower_char(s[i])]

\* SQLite's built-in lower(), reached through db.func.lower: folds the
\* ASCII letters only and leaves every other character as it is
sql_lower_char(c) ==
    CASE c = "D" -> "d"
      [] OTHER -> c

sql_lower(s) == [i \in 1..Len(s) |-> sql_lower_char(s[i])]

\* str.isdigit()
isdigit(s) ==
    /\ s # <<>>
    /\ \A i \in 1..Len(s) : s[i] \in DecimalDigits \cup NonDecimalDigits

digit_value(c) ==
    CASE c = "0" -> 0 [] c = "1" -> 1 [] c = "2" -> 2 [] c = "3" -> 3
      [] c = "4" -> 4 [] c = "5" -> 5 [] c = "6" -> 6 [] c = "7" -> 7
      [] c = "8" -> 8 [] c = "9" -> 9

RECURSIVE decimal_value(_)
decimal_value(s) ==
    IF s = <<>> THEN 0
    ELSE 10 * decimal_value(SubSeq(s, 1, Len(s) - 1)) + digit_value(s[Len(s)])

\* int(s) on a string for which isdigit() held: the value, or ValueError
int_of(s) ==
    IF \A i \in 1..Len(s) : s[i] \in DecimalDigits
    THEN [tag |-> "ok", value |-> decimal_value(s)]
    ELSE [tag |-> "ValueError"]

---------------------------------------------------------------------------
(* Dates.  A date field is modelled at the granularity of blanks and one   *)
(* body token; a date is the number YYYYMMDD and None is NoDate.           *)

NoDate == 0

DateLiterals == {"1891-01-01", "1892-01-03", "1892-1-3"}

\* datetime.strptime(value, "%Y-%m-%d").date(): month and day may come
\* without the leading zero
strptime_date(tok) ==
    CASE tok = "1891-01-01" -> 18910101
      [] tok = "1892-01-03" -> 18920103
      [] tok = "1892-1-3" -> 18920103

parse_date(value) ==
    LET v == strip(value) IN
    IF v = <<>> THEN [tag |-> "ok", date |-> NoDate]
    ELSE IF Len(v) = 1 /\ v[1] \in DateLiterals
    THEN [tag |-> "ok", date |-> strptime_date(v[1])]
    ELSE [tag |-> "BadRequest", msg |-> "Invalid date format. Use YYYY-MM-DD."]

validate_author_payload(name_raw, birth_date_str, death_date_str) ==
    LET name == strip(name_raw)
        birth == parse_date(birth_date_str)
        death == parse_date(death_date_str)
    IN  IF name = <<>>
        THEN [tag |-> "BadRequest", msg |-> "Author name cannot be empty."]
        ELSE IF birth.tag # "ok" THEN birth
        ELSE IF death.tag # "ok" THEN death
        ELSE IF /\ birth.date # NoDate
                /\ death.date # NoDate
                /\ death.date < birth.date
        THEN [tag |-> "BadRequest",
              msg |-> "Date of death cannot be earlier than birth date."]
        ELSE [tag |-> "ok", name |-> name,
              birth_date |-> birth.date, death_date |-> death.date]

validate_book_payload(title_raw, publication_year_raw, author_id_raw, now_year) ==
    LET title == strip(title_raw)
        publication_year_str == strip(publication_year_raw)
        author_id_str == strip(author_id_raw)
        year == int_of(publication_year_str)
        author_id == int_of(author_id_str)
    IN  IF title = <<>>
        THEN [tag |-> "BadRequest", msg |-> "Book title cannot be empty."]
        ELSE IF ~isdigit(publication_year_str)
        THEN [tag |-> "BadRequest", msg |-> "Publication year must be a number."]
        ELSE IF year.tag # "ok" THEN year
        ELSE IF year.value < 0 \/ year.value > now_year + 1
        THEN [tag |-> "BadRequest", msg |-> "Publication year seems invalid."]
        ELSE IF ~isdigit(author_id_str)
        THEN [tag |-> "BadRequest", msg |-> "author_id must be a valid integer."]
        ELSE IF author_id.tag # "ok" THEN author_id
        ELSE [tag |-> "ok", title |-> title,
              publication_year |-> year.value, author_id |-> author_id.value]

---------------------------------------------------------------------------
(* The datastore: two tables, each a set of rows *)

Ids(rows) == {r.id : r \in rows}

Max(S) == CHOOSE x \in S : \A y \in S : y <= x

\* id = Column(Integer, primary_key=True, autoincrement=True): on SQLite an
\* INTEGER PRIMARY KEY without the AUTOINCREMENT keyword, so a new row
\* gets the largest id in the table plus one
next_rowid(rows) == IF rows = {} THEN 1 ELSE Max(Ids(rows)) + 1

\* Model.query.get(id): the rows with that primary key (none or one)
query_get(rows, id) == {r \in rows : r.id = id}

\* Book.query.filter(db.func.lower(Book.title) == title.lower()).first()
\* finds a row: the left side is folded by SQLite, the right by Python
duplicate_title(bs, title) ==
    \E b \in bs : sql_lower(b.title) = py_lower(title)

\* Author.query.filter(db.func.lower(Author.name) == name.lower()).all()
existing_authors(as, name) ==
    {a \in as : sql_lower(a.name) = py_lower(name)}

\* the loop of add_author over `existing`
duplicate_author(as, name, birth_date) ==
    \E a \in existing_authors(as, name) :
        \/ a.birth_date = birth_date
        \/ (a.birth_date = NoDate /\ birth_date = NoDate)

\* the existence check left out
author_exists_unchecked(as, author_id) == TRUE

\* author = Author.query.get(author_id); if not author: raise BadRequest
author_exists(as, author_id) == query_get(as, author_id) # {}

\* the cleanup never taken
no_books_left_never(bs, author_id) == FALSE

\* `not author.books`: the collection, loaded from the table, is empty
no_books_left(bs, author_id) == ~\E b \in bs : b.author_id = author_id

\* the lookup's result not tested
book_not_found_never(bs, book_id) == FALSE

\* book = Book.query.get(book_id); if not book: raise NotFound
book_not_found(bs, book_id) == query_get(bs, book_id) = {}

\* (request.form.get("isbn") or "").strip() or None; None is <<>>
isbn_of(isbn_raw) == strip(isbn_raw)

\* FOREIGN KEY(author_id) REFERENCES author(id), checked by SQLite only
\* when the connection enforces foreign keys
fk_violated(as, bs, fk) ==
    fk /\ \E b \in bs : ~\E a \in as : a.id = b.author_id

\* DELETE FROM author WHERE id = ...: with foreign keys enforced,
\* ON DELETE CASCADE removes the books that reference the row
delete_author_rows(as, bs, author_id, fk) ==
    [authors |-> {a \in as : a.id # author_id},
     books |-> IF fk THEN {b \in bs : b.author_id # author_id} ELSE bs]

\* db.session.delete(author); db.session.commit() under
\* cascade="all, delete-orphan", passive_deletes=True: the unit of work
\* deletes the books of a loaded collection itself and leaves those of an
\* unloaded one to the database
session_delete_author(as, bs, author_id, collection_loaded, fk) ==
    delete_author_rows(
        as,
        IF collection_loaded THEN {b \in bs : b.author_id # author_id} ELSE bs,
        author_id, fk)

---------------------------------------------------------------------------
(* Responses *)

\* the request outside the path in which a route has no book id
NoBook == 0
\* no author captured
NoAuthor == 0

\* a response, with the request it answers: the route, the method, the book
\* id of the path and, for delete_book, the id of the author it captured
Response(op, method, book_id, status, flash) ==
    [op |-> op, method |-> method, book_id |-> book_id, author_id |-> NoAuthor,
     status |-> status, flash |-> flash]

Captured(response, author) ==
    [response EXCEPT !.author_id = IF author = {} THEN NoAuthor
                                   ELSE (CHOOSE a \in author : TRUE).id]

\* redirect(url_for("home")) after flash(..., "success")
Redirect == 302
\* render_template(...) of a form, with or without a flashed error
Rendered == 200
\* raise NotFound, through handle_404
NotFoundStatus == 404
\* raise InternalServerError, through handle_500
ServerErrorStatus == 500

---------------------------------------------------------------------------
(* The handlers, each run to completion.  commit_ok is whether the          *)
(* datastore accepts a commit (a storage failure makes it raise).           *)

add_author(method, name_raw, birth_raw, death_raw, commit_ok) ==
    LET v == validate_author_payload(name_raw, birth_raw, death_raw)
        row == [id |-> next_rowid(authors), name |-> v.name,
                birth_date |-> v.birth_date, date_of_death |-> v.death_date]
    IN  /\ UNCHANGED <<books, foreign_keys, procs, payload, result>>
        /\ IF method = "GET"
           THEN /\ authors' = authors
                /\ last' = Response("add_author", method, NoBook, Rendered, "")
           ELSE IF v.tag = "BadRequest"
           THEN /\ authors' = authors
                /\ last' = Response("add_author", method, NoBook, Rendered, v.msg)
           ELSE IF duplicate_author(authors, v.name, v.birth_date)
           THEN /\ authors' = authors
                /\ last' = Response("add_author", method, NoBook, Rendered,
                                    "Author already exists.")
           ELSE IF ~commit_ok
           THEN /\ authors' = authors
                /\ last' = Response("add_author", method, NoBook,
                                    ServerErrorStatus, "")
           ELSE /\ row.id <= MaxAuthorId
                /\ authors' = authors \cup {row}
                /\ last' = Response("add_author", method, NoBook, Redirect,
                                    "Author added successfully.")

add_book(method, title_raw, year_raw, author_id_raw, isbn_raw, commit_ok) ==
    LET v == validate_book_payload(title_raw, year_raw, author_id_raw, CurrentYear)
        row == [id |-> next_rowid(books), isbn |-> isbn_of(isbn_raw),
                title |-> v.title, publication_year |-> v.publication_year,
                author_id |-> v.author_id]
    IN  /\ UNCHANGED <<authors, foreign_keys, procs, payload, result>>
        /\ IF method = "GET"
           THEN /\ books' = books
                /\ last' = Response("add_book", method, NoBook, Rendered, "")
           ELSE IF v.tag = "BadRequest"
           THEN /\ books' = books
                /\ last' = Response("add_book", method, NoBook, Rendered, v.msg)
           ELSE IF v.tag = "ValueError"
           THEN /\ books' = books
                /\ last' = Response("add_book", method, NoBook,
                                    ServerErrorStatus, "")
           ELSE IF ~author_exists(authors, v.author_id)
           THEN /\ books' = books
                /\ last' = Response("add_book", method, NoBook, Rendered,
                                    "Selected author does not exist.")
           ELSE IF duplicate_title(books, v.title)
           THEN /\ books' = books
                /\ last' = Response("add_book", method, NoBook, Rendered,
                                    "A book with this title already exists.")
           ELSE IF ~commit_ok \/ fk_violated(authors, {row}, foreign_keys)
           THEN /\ books' = books
                /\ last' = Response("add_book", method, NoBook,
                                    ServerErrorStatus, "")
           ELSE /\ row.id <= MaxBookId
                /\ books' = books \cup {row}
                /\ last' = Response("add_book", method, NoBook, Redirect,
                                    "Book added successfully.")

update(method, book_id, title_raw, year_raw, author_id_raw, isbn_raw, commit_ok) ==
    LET v == validate_book_payload(title_raw, year_raw, author_id_raw, CurrentYear)
        found == query_get(books, book_id)
        changed(b) == [b EXCEPT !.title = v.title,
                                !.publication_year = v.publication_year,
                                !.author_id = v.author_id,
                                !.isbn = isbn_of(isbn_raw)]
        written == {changed(b) : b \in found}
    IN  /\ UNCHANGED <<authors, foreign_keys, procs, payload, result>>
        /\ IF book_not_found(books, book_id)
           THEN /\ books' = books
                /\ last' = Response("update", method, book_id, NotFoundStatus, "")
           ELSE IF method = "GET"
           THEN /\ books' = books
                /\ last' = Response("update", method, book_id, Rendered, "")
           ELSE IF v.tag = "BadRequest"
           THEN /\ books' = books
                /\ last' = Response("update", method, book_id, Rendered, v.msg)
           ELSE IF v.tag = "ValueError"
           THEN /\ books' = books
                /\ last' = Response("update", method, book_id,
                                    ServerErrorStatus, "")
           ELSE IF ~author_exists(authors, v.author_id)
           THEN /\ books' = books
                /\ last' = Response("update", method, book_id, Rendered,
                                    "Selected author does not exist.")
           ELSE IF /\ \E b \in found : py_lower(v.title) # py_lower(b.title)
                   /\ duplicate_title(books, v.title)
           THEN /\ books' = books
                /\ last' = Response("update", method, book_id, Rendered,
                                    "A book with this title already exists.")
           ELSE IF ~commit_ok \/ fk_violated(authors, written, foreign_keys)
           THEN /\ books' = books
                /\ last' = Response("update", method, book_id,
                                    ServerErrorStatus, "")
           ELSE /\ books' = (books \ found) \cup written
                /\ last' = Response("update", method, book_id, Redirect,
                                    "Book updated successfully.")

\* two commits: the book's DELETE, then the orphaned author's
delete_book(book_id, commit_ok, cleanup_commit_ok) ==
    LET found == query_get(books, book_id)
        \* author = book.author: the row the book's author_id names, or None
        author == UNION {query_get(authors, b.author_id) : b \in found}
        remaining == books \ found
        orphaned == \E a \in author : no_books_left(remaining, a.id)
        cleaned == {delete_author_rows(authors, remaining, a.id, foreign_keys) :
                        a \in author}
        response(status, flash) ==
            Captured(Response("delete_book", "POST", book_id, status, flash),
                     author)
    IN  /\ UNCHANGED <<foreign_keys, procs, payload, result>>
        /\ IF book_not_found(books, book_id)
           THEN /\ UNCHANGED <<authors, books>>
                /\ last' = Response("delete_book", "POST", book_id,
                                    NotFoundStatus, "")
           ELSE IF ~commit_ok
           THEN /\ UNCHANGED <<authors, books>>
                /\ last' = response(ServerErrorStatus, "")
           ELSE IF ~orphaned
           THEN /\ books' = remaining
                /\ authors' = authors
                /\ last' = response(Redirect, "Book deleted successfully.")
           ELSE IF ~cleanup_commit_ok
           THEN /\ books' = remaining
                /\ authors' = authors
                /\ last' = response(ServerErrorStatus, "")
           ELSE /\ \E d \in cleaned : authors' = d.authors /\ books' = d.books
                /\ last' = response(Redirect, "Book deleted successfully.")

\* Deleting an Author through the data model (no route of app.py does it
\* except delete_book's cleanup): the session deletes a stored author
\* whose books collection the request has or has not loaded
delete_author(author_id, collection_loaded, commit_ok) ==
    LET d == session_delete_author(authors, books, author_id,
                                   collection_loaded, foreign_keys)
    IN  /\ author_exists(authors, author_id)
        /\ UNCHANGED <<foreign_keys, procs, payload, result>>
        /\ IF commit_ok
           THEN /\ authors' = d.authors
                /\ books' = d.books
                /\ last' = Response("delete_author", "POST", NoBook,
                                    Redirect, "")
           ELSE /\ UNCHANGED <<authors, books>>
                /\ last' = Response("delete_author", "POST", NoBook,
                                    ServerErrorStatus, "")

---------------------------------------------------------------------------
(* Requests the model submits *)

Workers == {1, 2}

Idle == [pc |-> "idle"]

NoCall == [tag |-> "none"]

digit_char(n) ==
    CASE n = 0 -> "0" [] n = 1 -> "1" [] n = 2 -> "2" [] n = 3 -> "3"
      [] n = 4 -> "4" [] n = 5 -> "5" [] n = 6 -> "6" [] n = 7 -> "7"
      [] n = 8 -> "8" [] n = 9 -> "9"

RECURSIVE decimal_string(_)
decimal_string(n) ==
    IF n < 10 THEN <<digit_char(n)>>
    ELSE Append(decimal_string(n \div 10), digit_char(n % 10))

Methods == {"GET", "POST"}
BookIdInputs == 1..MaxBookId
AuthorIdInputs == {decimal_string(n) : n \in 0..MaxAuthorId}

NameInputs == {<<"d">>, <<" ">>}
BirthInputs == {<<>>, <<"1892-01-03">>}
DeathInputs == {<<>>}
TitleInputs == {<<"d">>, <<"D", " ">>, <<"e">>}
YearInputs == {decimal_string(CurrentYear + 1)}
IsbnInputs == {<<" ">>}

Init ==
    /\ authors = {}
    /\ books = {}
    /\ foreign_keys \in BOOLEAN
    /\ last = Response("none", "GET", NoBook, Rendered, "")
    /\ procs = [w \in Workers |-> Idle]
    /\ payload = NoCall
    /\ result = NoCall

\* a GET carries no form
AddAuthor ==
    \/ add_author("GET", <<>>, <<>>, <<>>, TRUE)
    \/ \E n \in NameInputs, b \in BirthInputs, d \in DeathInputs, ok \in BOOLEAN :
        add_author("POST", n, b, d, ok)

AddBook ==
    \/ add_book("GET", <<>>, <<>>, <<>>, <<>>, TRUE)
    \/ \E t \in TitleInputs, y \in YearInputs, a \in AuthorIdInputs,
          i \in IsbnInputs, ok \in BOOLEAN :
        add_book("POST", t, y, a, i, ok)

UpdateBook ==
    \E id \in BookIdInputs :
        \/ update("GET", id, <<>>, <<>>, <<>>, <<>>, TRUE)
        \/ \E t \in TitleInputs, y \in YearInputs, a \in AuthorIdInputs,
              i \in IsbnInputs, ok \in BOOLEAN :
            update("POST", id, t, y, a, i, ok)

DeleteBook ==
    \E id \in BookIdInputs, ok1 \in BOOLEAN, ok2 \in BOOLEAN :
        delete_book(id, ok1, ok2)

Next == AddAuthor \/ AddBook \/ UpdateBook \/ DeleteBook

Spec == Init /\ [][Next]_vars

---------------------------------------------------------------------------
(* Properties of the requests run one after another (Spec) *)

\* C1: every stored Book's author_id is the id of a stored Author, in every
\* state add-author, add-book, update-book and delete-book requests reach
C1_BooksReferenceStoredAuthors ==
    \A b \in books : \E a \in authors : a.id = b.author_id

\* an orphaned author has been removed (a gap below the largest author id)
\* by a delete-book, and books are still stored
C1_Witness ==
    /\ last.op = "delete_book"
    /\ last.status = Redirect
    /\ books # {}
    /\ \E a \in authors : \E gone \in 1..MaxAuthorId :
           gone < a.id /\ gone \notin Ids(authors)

\* C4: a successful delete-book of Book b owned by Author a removes b, removes
\* a exactly when a owned no other Book, and changes nothing else
C4_DeleteBookCleansOrphan ==
    [][(last'.op = "delete_book" /\ last'.status = Redirect) =>
        \E b \in books :
            /\ b.id = last'.book_id
            /\ books' = books \ {b}
            /\ authors' =
                 IF \E o \in books \ {b} : o.author_id = b.author_id
                 THEN authors
                 ELSE {a \in authors : a.id # b.author_id}]_vars

\* a delete-book succeeded and the captured author, who owned another Book,
\* is still stored with it
C4_Witness ==
    /\ last.op = "delete_book"
    /\ last.status = Redirect
    /\ last.author_id \in Ids(authors)
    /\ \E b \in books : b.author_id = last.author_id

\* C6: a mutating request that ends in a failure outcome leaves the stored
\* Authors and Books exactly as they were before the request
C6_FailedRequestChangesNothing ==
    [][(last'.method = "POST" /\ last'.status # Redirect) =>
        (authors' = authors /\ books' = books)]_vars

\* C7: update-book (GET or POST) and delete-book of a Book id that is not
\* stored answer 404 and change nothing
C7_UnknownBookIsNotFound ==
    [][(last'.op \in {"update", "delete_book"}
          /\ last'.book_id \notin Ids(books)) =>
        (last'.status = NotFoundStatus
          /\ authors' = authors /\ books' = books)]_vars

\* a POST to update a Book id that is not stored was answered 404 while
\* other Books are stored
C7_Witness ==
    /\ last.op = "update"
    /\ last.method = "POST"
    /\ last.status = NotFoundStatus
    /\ books # {}
    /\ last.book_id \notin Ids(books)

---------------------------------------------------------------------------
(* Deleting an Author through the data model, among the other requests *)

DeleteAuthor ==
    \E a \in 1..MaxAuthorId, loaded \in BOOLEAN, ok \in BOOLEAN :
        delete_author(a, loaded, ok)

NextDataModel == Next \/ DeleteAuthor

SpecDataModel == Init /\ [][NextDataModel]_vars

\* C5: deleting an Author through the data model removes, in the same
\* transaction, every Book whose author_id is that Author's id, loaded
\* beforehand or not: afterwards the Author is absent and no Book references it
C5_DeleteAuthorCascades ==
    [][(last'.op = "delete_author" /\ last'.status = Redirect) =>
        LET gone == Ids(authors) \ Ids(authors') IN
            /\ gone # {}
            /\ \A b \in books' : b.author_id \notin gone]_vars

---------------------------------------------------------------------------
(* add-author requests alone, over names that differ in case and dates     *)
(* written in several ways                                                 *)

AuthorNameInputs ==
    {<<>>, <<"d">>, <<" ", "D", " ">>, <<"E WITH ACUTE">>, <<"e with acute">>}
AuthorBirthInputs == {<<" ">>, <<"1892-01-03">>, <<"1892-1-3">>, <<"x">>}
AuthorDeathInputs == {<<>>, <<"1891-01-01">>, <<"1892-01-03", " ">>}

AddAuthorForms ==
    \/ add_author("GET", <<>>, <<>>, <<>>, TRUE)
    \/ \E n \in AuthorNameInputs, b \in AuthorBirthInputs,
          d \in AuthorDeathInputs, ok \in BOOLEAN :
        add_author("POST", n, b, d, ok)

SpecAuthors == Init /\ [][AddAuthorForms]_vars

\* equality ignoring case, as Unicode (and Python's str.lower) folds it
equal_ignoring_case(s, t) == py_lower(s) = py_lower(t)

\* C3: no two distinct stored Authors have names equal ignoring case together
\* with identical birth dates, and an add-author whose name matches a stored
\* Author ignoring case is rejected exactly when one of those has the
\* candidate's birth date
C3_NoDuplicateAuthors ==
    \A a \in authors : \A b \in authors :
        (a.id # b.id /\ equal_ignoring_case(a.name, b.name))
            => a.birth_date # b.birth_date

---------------------------------------------------------------------------
(* add-book and update-book requests over titles that differ in case, with *)
(* the add-author requests that give them an author                        *)

BookTitleInputs ==
    {<<>>, <<"d">>, <<" ", "D">>, <<"E WITH ACUTE">>, <<"e with acute">>}

AddBookForms ==
    \/ add_book("GET", <<>>, <<>>, <<>>, <<>>, TRUE)
    \/ \E t \in BookTitleInputs, y \in YearInputs, a \in AuthorIdInputs,
          i \in IsbnInputs, ok \in BOOLEAN :
        add_book("POST", t, y, a, i, ok)

UpdateBookForms ==
    \E id \in BookIdInputs :
        \/ update("GET", id, <<>>, <<>>, <<>>, <<>>, TRUE)
        \/ \E t \in BookTitleInputs, y \in YearInputs, a \in AuthorIdInputs,
              i \in IsbnInputs, ok \in BOOLEAN :
            update("POST", id, t, y, a, i, ok)

NextBooks == AddAuthor \/ AddBookForms \/ UpdateBookForms

SpecBooks == Init /\ [][NextBooks]_vars

\* C2: no two distinct stored Books have titles that are equal ignoring
\* case (an add-book or a title-changing update-book that would make two is
\* rejected and leaves the Books unchanged)
C2_NoDuplicateTitles ==
    \A a \in books : \A b \in books :
        a.id # b.id => ~equal_ignoring_case(a.title, b.title)

---------------------------------------------------------------------------
(* validate_book_payload as a function of its arguments *)

PayloadTitles == {<<>>, <<" ">>, <<" ", "d">>}
PayloadYears ==
    {<<>>, <<" ">>, <<"0">>, <<"0", "0", "7">>, <<"-", "1">>, <<"+", "1">>,
     <<"a", "b", "c", "d">>, <<"2", "0", " ", "2", "7">>,
     <<"SUPERSCRIPT TWO">>,
     decimal_string(CurrentYear), <<" ">> \o decimal_string(CurrentYear + 1),
     decimal_string(CurrentYear + 2) \o <<" ">>}
PayloadAuthorIds == {<<>>, <<"1">>, <<" ", "2">>, <<"x">>}

InitValidate ==
    /\ authors = {}
    /\ books = {}
    /\ foreign_keys = FALSE
    /\ last = Response("none", "GET", NoBook, Rendered, "")
    /\ procs = [w \in Workers |-> Idle]
    /\ payload \in [tag : {"call"}, title : PayloadTitles,
                    publication_year : PayloadYears,
                    author_id : PayloadAuthorIds]
    /\ result = NoCall

Validate ==
    /\ result = NoCall
    /\ result' = validate_book_payload(payload.title, payload.publication_year,
                                       payload.author_id, CurrentYear)
    /\ UNCHANGED <<authors, books, foreign_keys, last, procs, payload>>

SpecValidate == InitValidate /\ [][Validate]_vars

\* a non-empty string of decimal digits
decimal_digits_only(s) ==
    s # <<>> /\ \A i \in 1..Len(s) : s[i] \in DecimalDigits

\* C8: validate_book_payload accepts a publication year exactly when the
\* trimmed field is a non-empty string of decimal digits whose value y has
\* 0 <= y <= current year + 1; a larger value is rejected with "Publication
\* year seems invalid." and any other string with "Publication year must be
\* a number." (title and author id being valid)
C8_PublicationYearRule ==
    LET year == strip(payload.publication_year)
        others_valid == /\ strip(payload.title) # <<>>
                        /\ decimal_digits_only(strip(payload.author_id))
    IN  (result # NoCall /\ others_valid) =>
            IF ~decimal_digits_only(year)
            THEN result = [tag |-> "BadRequest",
                           msg |-> "Publication year must be a number."]
            ELSE IF decimal_value(year) > CurrentYear + 1
            THEN result = [tag |-> "BadRequest",
                           msg |-> "Publication year seems invalid."]
            ELSE /\ result.tag = "ok"
                 /\ result.publication_year = decimal_value(year)

---------------------------------------------------------------------------
(* Requests of two workers interleaved at the datastore's reads and        *)
(* commits.  Each worker has a session of its own; what a handler read     *)
(* stays in its locals: form (the validated payload), book (the row        *)
(* Book.query.get returned) and author (the row book.author returned).     *)

Locals(pc, op, book_id, form, book, author) ==
    [pc |-> pc, op |-> op, book_id |-> book_id, form |-> form,
     book |-> book, author |-> author]

NoForm == [title |-> <<>>, publication_year |-> 0, author_id |-> NoAuthor,
           isbn |-> <<>>]

Form(v, isbn_raw) ==
    [title |-> v.title, publication_year |-> v.publication_year,
     author_id |-> v.author_id, isbn |-> isbn_of(isbn_raw)]

\* the worker answers and is free again
Respond(w, response) ==
    /\ last' = response
    /\ procs' = [procs EXCEPT ![w] = Idle]

Goto(w, pc) ==
    /\ procs' = [procs EXCEPT ![w].pc = pc]
    /\ last' = last

\* the payload does not validate: BadRequest is flashed, anything else is 500
Invalid(op, book_id, v) ==
    IF v.tag = "BadRequest"
    THEN Response(op, "POST", book_id, Rendered, v.msg)
    ELSE Response(op, "POST", book_id, ServerErrorStatus, "")

\* add_book, POST: validate_book_payload
add_book_begin(w, title_raw, year_raw, author_id_raw, isbn_raw) ==
    LET v == validate_book_payload(title_raw, year_raw, author_id_raw, CurrentYear)
    IN  /\ procs[w].pc = "idle"
        /\ UNCHANGED <<authors, books, foreign_keys, payload, result>>
        /\ IF v.tag # "ok"
           THEN Respond(w, Invalid("add_book", NoBook, v))
           ELSE /\ procs' = [procs EXCEPT ![w] =
                      Locals("author", "add_book", NoBook, Form(v, isbn_raw),
                             {}, {})]
                /\ last' = last

\* update, POST: Book.query.get(book_id), then validate_book_payload
update_begin(w, book_id, title_raw, year_raw, author_id_raw, isbn_raw) ==
    LET v == validate_book_payload(title_raw, year_raw, author_id_raw, CurrentYear)
    IN  /\ procs[w].pc = "idle"
        /\ UNCHANGED <<authors, books, foreign_keys, payload, result>>
        /\ IF book_not_found(books, book_id)
           THEN Respond(w, Response("update", "POST", book_id, NotFoundStatus, ""))
           ELSE IF v.tag # "ok"
           THEN Respond(w, Invalid("update", book_id, v))
           ELSE /\ procs' = [procs EXCEPT ![w] =
                      Locals("author", "update", book_id, Form(v, isbn_raw),
                             query_get(books, book_id), {})]
                /\ last' = last

\* add_book and update: author = Author.query.get(author_id)
read_author(w) ==
    LET l == procs[w] IN
    /\ l.pc = "author"
    /\ UNCHANGED <<authors, books, foreign_keys, payload, result>>
    /\ IF ~author_exists(authors, l.form.author_id)
       THEN Respond(w, Response(l.op, "POST", l.book_id, Rendered,
                                "Selected author does not exist."))
       ELSE Goto(w, "duplicate")

\* add_book and update: the duplicate-title query (update runs it only when
\* the title differs from the loaded book's)
read_duplicate(w) ==
    LET l == procs[w] IN
    /\ l.pc = "duplicate"
    /\ UNCHANGED <<authors, books, foreign_keys, payload, result>>
    /\ IF /\ l.op = "update" =>
               \E b \in l.book : py_lower(l.form.title) # py_lower(b.title)
          /\ duplicate_title(books, l.form.title)
       THEN Respond(w, Response(l.op, "POST", l.book_id, Rendered,
                                "A book with this title already exists."))
       ELSE Goto(w, "commit")

\* add_book: db.session.add(book); db.session.commit()
add_book_commit(w, commit_ok) ==
    LET l == procs[w]
        row == [id |-> next_rowid(books), isbn |-> l.form.isbn,
                title |-> l.form.title,
                publication_year |-> l.form.publication_year,
                author_id |-> l.form.author_id]
    IN  /\ l.pc = "commit"
        /\ l.op = "add_book"
        /\ UNCHANGED <<authors, foreign_keys, payload, result>>
        /\ IF ~commit_ok \/ fk_violated(authors, {row}, foreign_keys)
           THEN /\ books' = books
                /\ Respond(w, Response("add_book", "POST", NoBook,
                                       ServerErrorStatus, ""))
           ELSE /\ row.id <= MaxBookId
                /\ books' = books \cup {row}
                /\ Respond(w, Response("add_book", "POST", NoBook, Redirect,
                                       "Book added successfully."))

\* update: the attributes are set and db.session.commit() flushes an UPDATE
\* of those that differ from the loaded row, WHERE book.id = book_id; no
\* row matched is StaleDataError
update_commit(w, commit_ok) ==
    LET l == procs[w]
        f == l.form
        dirty == \E b \in l.book :
                    \/ b.title # f.title
                    \/ b.publication_year # f.publication_year
                    \/ b.author_id # f.author_id
                    \/ b.isbn # f.isbn
        loaded == CHOOSE b \in l.book : TRUE
        current == query_get(books, l.book_id)
        changed(c) ==
            [c EXCEPT
               !.title = IF loaded.title # f.title THEN f.title ELSE @,
               !.publication_year = IF loaded.publication_year # f.publication_year
                                    THEN f.publication_year ELSE @,
               !.author_id = IF loaded.author_id # f.author_id
                             THEN f.author_id ELSE @,
               !.isbn = IF loaded.isbn # f.isbn THEN f.isbn ELSE @]
        written == {changed(c) : c \in current}
    IN  /\ l.pc = "commit"
        /\ l.op = "update"
        /\ UNCHANGED <<authors, foreign_keys, payload, result>>
        /\ IF ~commit_ok
              \/ (dirty /\ current = {})
              \/ (dirty /\ fk_violated(authors, written, foreign_keys))
           THEN /\ books' = books
                /\ Respond(w, Response("update", "POST", l.book_id,
                                       ServerErrorStatus, ""))
           ELSE /\ books' = IF dirty THEN (books \ current) \cup written
                            ELSE books
                /\ Respond(w, Response("update", "POST", l.book_id, Redirect,
                                       "Book updated successfully."))

\* delete_book: Book.query.get(book_id)
delete_book_begin(w, book_id) ==
    /\ procs[w].pc = "idle"
    /\ UNCHANGED <<authors, books, foreign_keys, payload, result>>
    /\ IF book_not_found(books, book_id)
       THEN Respond(w, Response("delete_book", "POST", book_id,
                                NotFoundStatus, ""))
       ELSE /\ procs' = [procs EXCEPT ![w] =
                  Locals("book.author", "delete_book", book_id, NoForm,
                         query_get(books, book_id), {})]
            /\ last' = last

\* delete_book: author = book.author, a lazy load by the book's author_id
delete_book_author(w) ==
    LET l == procs[w] IN
    /\ l.pc = "book.author"
    /\ UNCHANGED <<authors, books, foreign_keys, payload, result, last>>
    /\ procs' = [procs EXCEPT
                   ![w].author = UNION {query_get(authors, b.author_id) :
                                            b \in l.book},
                   ![w].pc = "delete"]

\* delete_book: db.session.delete(book); db.session.commit()
delete_book_commit(w, commit_ok) ==
    LET l == procs[w] IN
    /\ l.pc = "delete"
    /\ UNCHANGED <<authors, foreign_keys, payload, result>>
    /\ IF ~commit_ok
       THEN /\ books' = books
            /\ Respond(w, Captured(Response("delete_book", "POST", l.book_id,
                                            ServerErrorStatus, ""), l.author))
       ELSE /\ books' = books \ query_get(books, l.book_id)
            /\ Goto(w, "author.books")

\* delete_book: `if author and not author.books`; the commit expired the
\* author, so the access reloads its row (ObjectDeletedError when it is
\* gone) and then its books
delete_book_check(w) ==
    LET l == procs[w]
        success == Captured(Response("delete_book", "POST", l.book_id, Redirect,
                                     "Book deleted successfully."), l.author)
    IN  /\ l.pc = "author.books"
        /\ UNCHANGED <<authors, books, foreign_keys, payload, result>>
        /\ IF l.author = {}
           THEN Respond(w, success)
           ELSE IF \E a \in l.author : ~author_exists(authors, a.id)
           THEN Respond(w, Captured(Response("delete_book", "POST", l.book_id,
                                             ServerErrorStatus, ""), l.author))
           ELSE IF \E a \in l.author : no_books_left(books, a.id)
           THEN Goto(w, "cleanup")
           ELSE Respond(w, success)

\* delete_book: db.session.delete(author); db.session.commit(), the books
\* collection loaded and empty
delete_book_cleanup(w, commit_ok) ==
    LET l == procs[w] IN
    /\ l.pc = "cleanup"
    /\ UNCHANGED <<foreign_keys, payload, result>>
    /\ IF ~commit_ok
       THEN /\ UNCHANGED <<authors, books>>
            /\ Respond(w, Captured(Response("delete_book", "POST", l.book_id,
                                            ServerErrorStatus, ""), l.author))
       ELSE /\ \E a \in l.author :
                 LET d == delete_author_rows(authors, books, a.id, foreign_keys)
                 IN  authors' = d.authors /\ books' = d.books
            /\ Respond(w, Captured(Response("delete_book", "POST", l.book_id,
                                            Redirect,
                                            "Book deleted successfully."),
                                   l.author))

\* the interleaved requests all name the author with id 1
ConcurrentTitleInputs == {<<"d">>, <<"D">>}
ConcurrentAuthorIdInputs == {<<"1">>}

\* an add-author request, run while no other request is in flight
AddAuthorAlone ==
    /\ \A w \in Workers : procs[w].pc = "idle"
    /\ \E b \in BirthInputs, ok \in BOOLEAN :
           add_author("POST", <<"d">>, b, <<>>, ok)

Begin(w) ==
    \/ \E t \in ConcurrentTitleInputs, a \in ConcurrentAuthorIdInputs :
           \/ add_book_begin(w, t, decimal_string(CurrentYear), a, <<>>)
           \/ \E id \in BookIdInputs :
                  update_begin(w, id, t, decimal_string(CurrentYear), a, <<>>)
    \/ \E id \in BookIdInputs : delete_book_begin(w, id)

Step(w) ==
    \/ read_author(w)
    \/ read_duplicate(w)
    \/ delete_book_author(w)
    \/ delete_book_check(w)
    \/ \E ok \in BOOLEAN :
           \/ add_book_commit(w, ok)
           \/ update_commit(w, ok)
           \/ delete_book_commit(w, ok)
           \/ delete_book_cleanup(w, ok)

NextConcurrent == AddAuthorAlone \/ \E w \in Workers : Begin(w) \/ Step(w)

SpecConcurrent == Init /\ [][NextConcurrent]_vars

\* C9: two add-book (or update-book) requests carrying the same title,
\* interleaved at the datastore's reads and commits, never both pass the
\* duplicate-title check and both commit: no two stored Books have the same
\* title ignoring case
C9_InterleavedTitlesStayUnique ==
    ~\E a \in books : \E b \in books :
        a.id < b.id /\ equal_ignoring_case(a.title, b.title)

\* C10: with a delete-book that removes an Author's last Book interleaved
\* with an add-book (or update-book) naming that Author, no stored Book's
\* author_id names an absent Author
C10_InterleavedBooksKeepAuthor ==
    {b.author_id : b \in books} \subseteq Ids(authors)

=============================================================================
